---- MODULE Spec2Model ----
(***************************************************************************)
(* A model of hikaru/watch.py: Watcher (one kind's watch stream with a     *)
(* resumable resource_version cursor) and MultiplexingWatcher (several     *)
(* Watchers, each driven by a worker thread, merged into one queue).       *)
(*                                                                         *)
(* Python generators are modelled as small step machines.  A step runs    *)
(* from one suspension point (a blocking transport call, a yield, a       *)
(* thread switch between two shared accesses) to the next.                 *)
(***************************************************************************)
EXTENDS Integers, Sequences, FiniteSets, TLC

----------------------------------------------------------------------------
(* Bounds of the model *)

\* resourceVersions carried by transport events are 1..MaxRV
MaxRV == 2
\* worker threads that may be alive at the same time
MaxWorkers == 2
\* events that may sit in results_queue at the same time
MaxQueue == 2

----------------------------------------------------------------------------
(* Python values *)

\* None is the empty option, Some(x) a present value
None == {}
Some(x) == {x}
Val(o) == CHOOSE x \in o : TRUE

Digits == <<"0", "1", "2", "3", "4", "5", "6", "7", "8", "9">>
IsDigit(c) == \E i \in 1..10 : Digits[i] = c
DigitVal(c) == (CHOOSE i \in 1..10 : Digits[i] = c) - 1

\* str(n) of an int: decimal digits, a leading "-" when negative
RECURSIVE StrNat(_)
StrNat(n) == IF n < 10 THEN <<Digits[n + 1]>>
             ELSE StrNat(n \div 10) \o <<Digits[(n % 10) + 1]>>
Str(n) == IF n < 0 THEN <<"-">> \o StrNat(0 - n) ELSE StrNat(n)

\* int(s) of a str is defined on non-empty digit strings; anything else
\* raises ValueError
IntOk(s) == Len(s) > 0 /\ \A i \in 1..Len(s) : IsDigit(s[i])
RECURSIVE Int_(_)
Int_(s) == IF Len(s) = 0 THEN 0
           ELSE 10 * Int_(SubSeq(s, 1, Len(s) - 1)) + DigitVal(s[Len(s)])

\* Watcher._rvre = re.compile(r'\(([0-9]+)\)') and _rvre.search(reason):
\* group(1) of the leftmost "(" digits+ ")" of the string, or None
\* a regular expression that also accepts "()": [0-9]* for [0-9]+
RvreEndStar(s, i) == {j \in (i + 1)..Len(s) :
                        /\ s[j] = ")"
                        /\ \A k \in (i + 1)..(j - 1) : IsDigit(s[k])}
RvreEnd(s, i) == {j \in (i + 2)..Len(s) :
                    /\ s[j] = ")"
                    /\ \A k \in (i + 1)..(j - 1) : IsDigit(s[k])}
RvreStarts(s) == {i \in 1..Len(s) : s[i] = "(" /\ RvreEnd(s, i) # {}}
rvre_search(s) ==
    IF RvreStarts(s) = {} THEN None
    ELSE LET i == CHOOSE a \in RvreStarts(s) : \A b \in RvreStarts(s) : a <= b
             j == CHOOSE a \in RvreEnd(s, i) : TRUE
         IN  Some(SubSeq(s, i + 1, j - 1))

\* e.reason.startswith('Expired:')
startswith_Expired(s) == Len(s) > 0 /\ s[1] = "Expired:"

----------------------------------------------------------------------------
(* The objects *)

\* the Watcher instances of a run, and the kinds (cls) they may watch
W == {"w1", "w2"}
Kinds == {"Pod", "Namespace"}

\* the kinds a Watcher may be constructed for: the two above, a kind with
\* both watch variants and one with the cluster-wide variant only (Role and
\* ClusterRole of the Watchables and NamespacedWatchables of a model
\* release), and a HikaruDocumentBase subclass that is in neither
CtorKinds == Kinds \cup {"Role", "ClusterRole", "PolicyRule"}

\* watcher_cls._watcher and watcher_cls._namespaced_watcher: the
\* WatcherDescriptor of the variant, or None
watcher_of(k) ==
    IF k \in {"Pod", "Namespace", "Role", "ClusterRole"}
    THEN Some([kind |-> k, namespaced |-> FALSE]) ELSE None
namespaced_watcher(k) ==
    IF k \in {"Pod", "Role"}
    THEN Some([kind |-> k, namespaced |-> TRUE]) ELSE None

\* the namespace argument of Watcher(...): None, '' or a name
Namespaces == {None, Some(""), Some("ns")}

\* the objects that have stop() and stream(): the Watchers and the coordinator
Mux == "mux"
Objects == W \cup {Mux}

\* Watcher._starting_resource_version
starting_resource_version == -1

\* drivers of a Watcher.stream() generator: 0 is a caller that consumes a
\* Watcher directly, 1..MaxWorkers are threads of MultiplexingWatcher
Threads == 1..MaxWorkers
Drivers == 0..MaxWorkers

\* what a caller may hand over as resource_version: None, an int or a str
PyNone == [t |-> "none", n |-> 0, s |-> <<>>]
PyInt(n) == [t |-> "int", n |-> n, s |-> <<>>]
PyStr(s) == [t |-> "str", n |-> 0, s |-> s]
\* str(x) of an int or a str
str(x) == IF x.t = "int" THEN Str(x.n) ELSE x.s

\* resource_version arguments of Watcher(...) and update_resource_version
RVInputs == {PyNone, PyInt(0), PyInt(MaxRV), PyStr(<<"1">>), PyStr(<<>>)}

\* what the transport (kubernetes.watch.Watch.stream) delivers: events with
\* a resourceVersion, and ApiExceptions with a status and a reason string
EventRVs == {Str(n) : n \in 1..MaxRV}
Reasons == { <<"Expired:", " ", "(", "2", ")">>,
             <<"Expired:", " ", "(", "x", ")", "(", "0", "1", ")">>,
             <<"Expired:", " ", "g", "o", "n", "e">>,
             <<"Expired:", "(", ")">>,
             <<"G", "o", "n", "e", " ", "(", "1", ")">> }
Statuses == {410, 500}

VARIABLES
    cls,      \* Watcher.cls, fixed at construction
    wd,       \* Watcher.wd, the WatcherDescriptor chosen at construction
    ns,       \* Watcher.kwargs['namespace']: absent (None) or a str
    made,     \* outcome of the latest call Watcher(...) for the name
    run,      \* BaseWatcher._run of each Watcher
    rv,       \* Watcher.kwargs['resource_version']: None or a str
    hrv,      \* Watcher.highest_resource_version
    gen,      \* the Watcher.stream() generator each driver holds
    mrun,     \* MultiplexingWatcher._run
    policy,   \* its manage_resource_version and quit_on_timeout
    watchers, \* its dict watchers, as the set of its (cls, Watcher) items
    queue,    \* its results_queue
    wk,       \* its worker threads (_run_watcher)
    mgen,     \* the MultiplexingWatcher.stream() generator of the consumer
    cb,       \* its exception_callback
    stopped,  \* history: stop() was called on the object and stream() was
              \* not called on it since
    delivered \* history: the largest resourceVersion among the events the
              \* Watcher has yielded to its direct caller; before the
              \* first one, the value highest_resource_version starts with

\* the Watchers as Watcher(cls) leaves them: no namespace, the cluster-wide
\* descriptor of the kind
Built ==
    /\ wd = [w \in W |-> watcher_of(cls[w])]
    /\ ns = [w \in W |-> None]
    /\ made = [w \in W |-> "ok"]

\* what the construction of the Watchers fixes
conf == <<cls, wd, ns, made>>

wvars == <<conf, run, rv, hrv, gen, delivered>>
mvars == <<mrun, policy, watchers, queue, wk, mgen, cb>>
vars == <<cls, wd, ns, made, run, rv, hrv, gen, mrun, policy, watchers, queue,
          wk, mgen, cb, stopped, delivered>>

NoExc == [kind |-> "none", status |-> 0, reason |-> <<>>]
ApiException(status, reason) ==
    [kind |-> "ApiException", status |-> status, reason |-> reason]
RuntimeError == [kind |-> "RuntimeError", status |-> 0, reason |-> <<>>]
ValueError == [kind |-> "ValueError", status |-> 0, reason |-> <<>>]

\* the request a generator has open on the transport: the resource_version
\* of its kwargs, with highest_resource_version as it was when it was opened
NoReq == [open |-> FALSE, prime |-> FALSE, rv |-> None, hi |-> 0]
Req(prime, r, h) == [open |-> TRUE, prime |-> prime, rv |-> r, hi |-> h]

\* a generator: its arguments, where it is suspended (pc), the event it is
\* about to yield or has yielded (ev), the exception it caught or raised
\* (exc) and how it came to where it is (why)
NoGen == [pc |-> "none", w |-> "w1", manage |-> FALSE, quit |-> FALSE,
          ev |-> None, req |-> NoReq, exc |-> NoExc, why |-> "none"]
NewGen(w, manage, quit) ==
    [NoGen EXCEPT !.pc = "created", !.w = w, !.manage = manage, !.quit = quit]

\* BaseWatcher.isrunning
isrunning(w) == run[w]

\* Watcher.current_resource_version
current_resource_version(w) == rv[w]

\* Watcher.__init__: kwargs['resource_version'] is str(resource_version), or
\* None when none was given
init_resource_version(x) == IF x.t = "none" THEN None ELSE Some(str(x))

\* Watcher.update_resource_version: the new value of the cursors; None is
\* refused with a RuntimeError and changes nothing
update_ok(x) == x.t # "none"
update_resource_version(w, x) ==
    IF update_ok(x) THEN [rv EXCEPT ![w] = Some(str(x))] ELSE rv

Max(a, b) == IF a > b THEN a ELSE b

----------------------------------------------------------------------------
(* Watcher.stream, a generator.  pc: "created" (stream() was called, the   *)
(* body has not run), "prime" (blocked in the priming transport call),     *)
(* "loop" (at the top of the while loop), "wait" (blocked in the main       *)
(* transport call), "evt" (an event was deserialized, before the second    *)
(* isrunning() test), "yielded" (suspended at yield, the consumer has the  *)
(* event), "resume" (the consumer called next()), "done" (returned),       *)
(* "raised" (ended by the exception exc).                                  *)

\* the history fields of a generator (why, and hi of req) are kept for the
\* generator of the direct caller only
Trace(d, g) == IF d = 0 THEN g
               ELSE [g EXCEPT !.why = "none", !.req.hi = 0]
SetGen(d, g) == gen' = [gen EXCEPT ![d] = Trace(d, g)]

\* lines 313-318: the first next() runs start(), creates the transport and
\* either opens the priming request with resource_version '1' or goes to
\* the while loop
GenStart(d) ==
    LET g == gen[d] IN
    /\ g.pc = "created"
    /\ run' = [run EXCEPT ![g.w] = TRUE]
    /\ IF g.manage /\ current_resource_version(g.w) = None
       THEN SetGen(d, [g EXCEPT !.pc = "prime", !.why = "start",
                                !.req = Req(TRUE, Some(<<"1">>), hrv[g.w])])
       ELSE SetGen(d, [g EXCEPT !.pc = "loop", !.why = "start"])
    /\ UNCHANGED <<conf, delivered, rv, hrv>>
    /\ UNCHANGED <<mvars, stopped>>

\* lines 320-322: the priming request delivers an event
GenPrimeEvent(d) ==
    LET g == gen[d] IN
    /\ g.pc = "prime"
    /\ SetGen(d, [g EXCEPT !.pc = "raised", !.exc = RuntimeError,
                           !.req = NoReq, !.why = "prime_event"])
    /\ UNCHANGED <<conf, delivered, run, rv, hrv>>
    /\ UNCHANGED <<mvars, stopped>>

\* line 320: the priming request ends with neither an event nor an error;
\* the for loop is over and control reaches the while loop
GenPrimeTimeout(d) ==
    LET g == gen[d] IN
    /\ g.pc = "prime"
    /\ SetGen(d, [g EXCEPT !.pc = "loop", !.req = NoReq,
                           !.why = "prime_timeout"])
    /\ UNCHANGED <<conf, delivered, run, rv, hrv>>
    /\ UNCHANGED <<mvars, stopped>>

\* lines 323-332: the priming request raises ApiException(status, reason)
PrimeRecovers(status, reason) ==
    /\ status = 410
    /\ startswith_Expired(reason)
    /\ rvre_search(reason) # None

GenPrimeError(d, status, reason) ==
    LET g == gen[d] IN
    /\ g.pc = "prime"
    /\ IF PrimeRecovers(status, reason)
       THEN /\ rv' = update_resource_version(g.w,
                        PyStr(Val(rvre_search(reason))))
            /\ SetGen(d, [g EXCEPT !.pc = "loop", !.req = NoReq,
                                   !.exc = ApiException(status, reason),
                                   !.why = "primed"])
       ELSE /\ rv' = rv
            /\ SetGen(d, [g EXCEPT !.pc = "raised", !.req = NoReq,
                                   !.exc = ApiException(status, reason),
                                   !.why = "prime_error"])
    /\ UNCHANGED <<conf, delivered, run, hrv>>
    /\ UNCHANGED <<mvars, stopped>>

\* lines 334-341: the loop test, the advance of the cursor to
\* highest_resource_version, and the opening of the transport with kwargs
\* a loop top that never advances the cursor
AdvanceNever(w) == FALSE
AdvanceNeeded(w) ==
    /\ current_resource_version(w) # None
    /\ hrv[w] > Int_(Val(current_resource_version(w)))

GenLoop(d) ==
    LET g == gen[d]
        w == g.w
    IN
    /\ g.pc = "loop"
    /\ IF ~isrunning(w)
       THEN /\ SetGen(d, [g EXCEPT !.pc = "done", !.exc = NoExc,
                                   !.why = "stopped"])
            /\ rv' = rv
       ELSE IF /\ g.manage
               /\ current_resource_version(w) # None
               /\ ~IntOk(Val(current_resource_version(w)))
       THEN \* int(...) raises ValueError
            /\ SetGen(d, [g EXCEPT !.pc = "raised", !.exc = ValueError,
                                   !.why = "int"])
            /\ rv' = rv
       ELSE /\ rv' = IF g.manage /\ AdvanceNeeded(w)
                     THEN update_resource_version(w, PyInt(hrv[w]))
                     ELSE rv
            /\ SetGen(d, [g EXCEPT !.pc = "wait", !.exc = NoExc,
                                   !.why = IF g.why = "timeout" THEN "reopen"
                                           ELSE IF g.why = "resync" THEN "resynced"
                                           ELSE "open",
                                   !.req = Req(FALSE, rv'[w], hrv[w])])
    /\ UNCHANGED <<conf, delivered, run, hrv>>
    /\ UNCHANGED <<mvars, stopped>>

\* an event loop with the test that lines 350-353 leave commented out: an
\* event of a version below highest_resource_version is not yielded
GenEventSuppressesOld(d, e) ==
    LET g == gen[d]
        w == g.w
    IN
    /\ g.pc = "wait"
    /\ IF ~isrunning(w)
       THEN /\ SetGen(d, [g EXCEPT !.pc = "loop", !.req = NoReq,
                                   !.why = "stopped"])
            /\ hrv' = hrv
       ELSE IF Int_(e) < hrv[w]
       THEN /\ SetGen(d, [g EXCEPT !.ev = None, !.why = "skipped"])
            /\ hrv' = hrv
       ELSE /\ hrv' = [hrv EXCEPT ![w] = Max(hrv[w], Int_(e))]
            /\ SetGen(d, [g EXCEPT !.pc = "evt", !.ev = Some(e),
                                   !.why = "event"])
    /\ UNCHANGED <<conf, delivered, run, rv>>
    /\ UNCHANGED <<mvars, stopped>>

\* lines 341-349: the transport delivers an event of resourceVersion e
GenEvent(d, e) ==
    LET g == gen[d]
        w == g.w
    IN
    /\ g.pc = "wait"
    /\ IF ~isrunning(w)
       THEN \* break, then line 368 finds the Watcher not running
            /\ SetGen(d, [g EXCEPT !.pc = "loop", !.req = NoReq,
                                   !.why = "stopped"])
            /\ hrv' = hrv
       ELSE /\ hrv' = [hrv EXCEPT ![w] = Max(hrv[w], Int_(e))]
            /\ SetGen(d, [g EXCEPT !.pc = "evt", !.ev = Some(e),
                                   !.why = "event"])
    /\ UNCHANGED <<conf, delivered, run, rv>>
    /\ UNCHANGED <<mvars, stopped>>

\* the history of the events yielded to the direct caller (driver 0), kept
\* like the history fields of Trace: an event of version e of the Watcher w
\* is handed to the driver d
NoteYield(d, w, e) ==
    delivered' = IF d = 0
                 THEN [delivered EXCEPT ![w] = Max(delivered[w], Int_(e))]
                 ELSE delivered

\* lines 354-357: the second isrunning() test and the yield
GenYield(d) ==
    LET g == gen[d] IN
    /\ g.pc = "evt"
    /\ IF isrunning(g.w)
       THEN /\ SetGen(d, [g EXCEPT !.pc = "yielded"])
            /\ NoteYield(d, g.w, Val(g.ev))
       ELSE /\ SetGen(d, [g EXCEPT !.pc = "loop", !.ev = None, !.req = NoReq,
                                   !.why = "stopped"])
            /\ delivered' = delivered
    /\ UNCHANGED <<conf, run, rv, hrv>>
    /\ UNCHANGED <<mvars, stopped>>

\* lines 358-359: after the yield
GenResume(d) ==
    LET g == gen[d] IN
    /\ g.pc = "resume"
    /\ IF isrunning(g.w)
       THEN SetGen(d, [g EXCEPT !.pc = "wait", !.ev = None,
                                !.why = "resumed"])
       ELSE SetGen(d, [g EXCEPT !.pc = "loop", !.ev = None, !.req = NoReq,
                                !.why = "stopped"])
    /\ UNCHANGED <<conf, delivered, run, rv, hrv>>
    /\ UNCHANGED <<mvars, stopped>>

\* the timeout handling with the test of quit_on_timeout left out
GenTimeoutAlwaysQuits(d) ==
    LET g == gen[d] IN
    /\ g.pc = "wait"
    /\ IF isrunning(g.w)
       THEN SetGen(d, [g EXCEPT !.pc = "done", !.req = NoReq,
                                !.why = "quit"])
       ELSE SetGen(d, [g EXCEPT !.pc = "loop", !.req = NoReq,
                                !.why = "timeout"])
    /\ UNCHANGED <<conf, delivered, run, rv, hrv>>
    /\ UNCHANGED <<mvars, stopped>>

\* a timeout handling that clears _run before it quits
GenTimeoutStops(d) ==
    LET g == gen[d] IN
    /\ g.pc = "wait"
    /\ IF isrunning(g.w) /\ g.quit
       THEN /\ SetGen(d, [g EXCEPT !.pc = "done", !.req = NoReq,
                                   !.why = "quit"])
            /\ run' = [run EXCEPT ![g.w] = FALSE]
       ELSE /\ SetGen(d, [g EXCEPT !.pc = "loop", !.req = NoReq,
                                   !.why = "timeout"])
            /\ run' = run
    /\ UNCHANGED <<conf, delivered, rv, hrv>>
    /\ UNCHANGED <<mvars, stopped>>

\* lines 341, 368-371: the transport call ends without an error (the idle
\* timeout, or the end of a transport that was told to stop)
GenTimeout(d) ==
    LET g == gen[d] IN
    /\ g.pc = "wait"
    /\ IF isrunning(g.w) /\ g.quit
       THEN SetGen(d, [g EXCEPT !.pc = "done", !.req = NoReq,
                                !.why = "quit"])
       ELSE SetGen(d, [g EXCEPT !.pc = "loop", !.req = NoReq,
                                !.why = "timeout"])
    /\ UNCHANGED <<conf, delivered, run, rv, hrv>>
    /\ UNCHANGED <<mvars, stopped>>

\* the handler of the main loop with the test of the priming handler
LoopRecoversExpiredOnly(manage, status, reason) ==
    /\ status = 410
    /\ manage
    /\ startswith_Expired(reason)
    /\ rvre_search(reason) # None

\* the handler of the main loop without the test of manage_resource_version
LoopRecoversAnyMode(manage, status, reason) ==
    /\ status = 410
    /\ rvre_search(reason) # None

\* lines 360-367: the transport raises ApiException(status, reason)
LoopRecovers(manage, status, reason) ==
    /\ status = 410
    /\ manage
    /\ rvre_search(reason) # None

GenError(d, status, reason) ==
    LET g == gen[d] IN
    /\ g.pc = "wait"
    /\ IF LoopRecovers(g.manage, status, reason)
       THEN /\ rv' = update_resource_version(g.w,
                        PyStr(Val(rvre_search(reason))))
            /\ SetGen(d, [g EXCEPT !.pc = "loop", !.req = NoReq,
                                   !.exc = ApiException(status, reason),
                                   !.why = "resync"])
       ELSE /\ rv' = rv
            /\ SetGen(d, [g EXCEPT !.pc = "raised", !.req = NoReq,
                                   !.exc = ApiException(status, reason),
                                   !.why = "error"])
    /\ UNCHANGED <<conf, delivered, run, hrv>>
    /\ UNCHANGED <<mvars, stopped>>

\* the steps of the priming request; Errs is what the transport may raise
GenPrimeStep(d, Errs) ==
    \/ GenPrimeEvent(d)
    \/ GenPrimeTimeout(d)
    \/ \E x \in Errs : GenPrimeError(d, x[1], x[2])

\* the steps of a generator whose transport delivers no event
GenIdleStep(d, Errs) ==
    \/ GenStart(d)
    \/ GenLoop(d)
    \/ GenTimeout(d)
    \/ \E x \in Errs : GenError(d, x[1], x[2])

\* the steps around an event of the transport; Evs is what it may deliver
GenEventStep(d, Evs) ==
    \/ \E e \in Evs : GenEvent(d, e)
    \/ GenYield(d)
    \/ GenResume(d)

----------------------------------------------------------------------------
(* A Watcher used directly: the caller holds the generator of driver 0.    *)

\* a stop() that flips _run in place of clearing it
stop_flips(S) == run' = [w \in W |-> IF w \in S THEN ~run[w] ELSE run[w]]

\* Watcher.stop (lines 264-274) on every Watcher of S: tells the transport
\* to stop and clears _run
stop(S) == run' = [w \in W |-> IF w \in S THEN FALSE ELSE run[w]]

\* the history of stop() and stream() calls: stop() was called on the objects
\* of S, or stream() on the object o
NoteStop(S) == stopped' = [o \in Objects |-> IF o \in S THEN TRUE ELSE stopped[o]]
NoteStream(x) == stopped' = [o \in Objects |-> IF o = x THEN FALSE ELSE stopped[o]]

\* the caller calls w.stream(manage_resource_version, quit_on_timeout): a
\* generator is created, nothing of the body has run
UserStream(w, manage, quit) ==
    /\ SetGen(0, NewGen(w, manage, quit))
    /\ NoteStream(w)
    /\ UNCHANGED <<conf, delivered, run, rv, hrv>>
    /\ UNCHANGED mvars

\* the caller asks for the next event of the sequence
UserNext ==
    /\ gen[0].pc = "yielded"
    /\ SetGen(0, [gen[0] EXCEPT !.pc = "resume"])
    /\ UNCHANGED <<conf, delivered, run, rv, hrv>>
    /\ UNCHANGED <<mvars, stopped>>

\* the caller, or another thread of the caller, calls w.stop()
UserStop(w) ==
    /\ stop({w})
    /\ NoteStop({w})
    /\ UNCHANGED <<conf, delivered, rv, hrv, gen>>
    /\ UNCHANGED mvars

\* the caller calls w.update_resource_version(x)
UserUpdate(w, x) ==
    /\ rv' = update_resource_version(w, x)
    /\ UNCHANGED <<conf, delivered, run, hrv, gen>>
    /\ UNCHANGED <<mvars, stopped>>

----------------------------------------------------------------------------
(* MultiplexingWatcher *)

\* a worker thread: where it is in _run_watcher (pc) and its Watcher.  pc:
\* "idle" (no such thread), "while" (at the loop test of line 417), "iter"
\* (in the for loop, in or waiting for next()), "put" (line 421 passed,
\* before the put of line 422), "del" (at line 437).  flag is the local
\* variable flag ("unbound" until an exception was handled), called the
\* arguments of the last call of the exception_callback the thread made
NoWorker == [pc |-> "idle", w |-> "w1", flag |-> "unbound", called |-> None]
Worker(w) == [pc |-> "while", w |-> w, flag |-> "unbound", called |-> None]

\* the generator of MultiplexingWatcher.stream(): "created", "loop" (at the
\* loop test of line 518), "yielded" (the consumer has the event ev), "done"
NoMGen == [pc |-> "none", manage |-> FALSE, quit |-> FALSE, ev |-> None]
NewMGen(manage, quit) ==
    [pc |-> "created", manage |-> manage, quit |-> quit, ev |-> None]

\* an event in results_queue: the Watcher that yielded it and its version
QEvent(w, e) == [w |-> w, rv |-> e]

\* the exception_callback given to MultiplexingWatcher(...): none, or one
\* that returns True, returns another value, or raises
Callbacks == {"none", "returns_true", "returns_other", "raises"}

\* the dict self.watchers as a set of (key, value) items
dict_get(d, k) == {e[2] : e \in {x \in d : x[1] = k}}
dict_set(d, k, v) == {e \in d : e[1] # k} \cup {<<k, v>>}
\* a deletion that empties the dict
dict_del_clears(d, k) == {}
dict_del(d, k) == {e \in d : e[1] # k}
dict_values(d) == {e[2] : e \in d}

\* truth of a policy flag as Watcher.stream receives it
Truthy(o) == o = Some(TRUE)

\* MultiplexingWatcher.__init__ (lines 404-409), before any Watcher is added
InitMux ==
    /\ mrun = FALSE
    /\ policy = [manage |-> None, quit |-> None]
    /\ watchers = {}
    /\ queue = <<>>
    /\ wk = [t \in Threads |-> NoWorker]
    /\ mgen = NoMGen

\* _start_watcher (lines 411-413) for every Watcher of S: a new thread each
Free == {t \in Threads : wk[t].pc = "idle"}
CanSpawn(S) == Cardinality(S) <= Cardinality(Free)
Spawn(S) ==
    LET f == CHOOSE f \in [S -> Free] : \A a, b \in S : a # b => f[a] # f[b]
    IN  [t \in Threads |->
           IF \E w \in S : f[w] = t
           THEN Worker(CHOOSE w \in S : f[w] = t)
           ELSE wk[t]]

\* add_watcher without the stop of the Watcher it replaces
add_watcher_keeps_current(w) ==
    /\ mrun => CanSpawn({w})
    /\ watchers' = dict_set(watchers, cls[w], w)
    /\ wk' = IF mrun THEN Spawn({w}) ELSE wk
    /\ UNCHANGED <<conf, delivered, run, rv, hrv, gen, mrun, policy, queue,
                   mgen, cb, stopped>>

\* add_watcher without the start of a worker under a running coordinator
add_watcher_registers_only(w) ==
    LET current == dict_get(watchers, cls[w]) IN
    /\ stop(current)
    /\ NoteStop(current)
    /\ watchers' = dict_set(watchers, cls[w], w)
    /\ UNCHANGED <<conf, delivered, rv, hrv, gen, mrun, policy, queue, wk,
                   mgen, cb>>

\* add_watcher (lines 439-457)
add_watcher(w) ==
    LET current == dict_get(watchers, cls[w]) IN
    /\ mrun => CanSpawn({w})
    /\ stop(current)
    /\ NoteStop(current)
    /\ watchers' = dict_set(watchers, cls[w], w)
    /\ wk' = IF mrun THEN Spawn({w}) ELSE wk
    /\ UNCHANGED <<conf, delivered, rv, hrv, gen, mrun, policy, queue, mgen,
                   cb>>

\* del_watcher (lines 459-469): what it does to the Watcher and to the dict
del_watcher(w) ==
    /\ stop({w})
    /\ NoteStop({w})
    /\ watchers' = dict_del(watchers, cls[w])

\* the caller calls mux.del_watcher(w)
UserDel(w) ==
    /\ del_watcher(w)
    /\ UNCHANGED <<conf, delivered, rv, hrv, gen, mrun, policy, queue, wk,
                   mgen, cb>>

\* MultiplexingWatcher.stop (lines 471-477)
MuxStop ==
    /\ mrun' = FALSE
    /\ stop(dict_values(watchers))
    /\ NoteStop({Mux} \cup dict_values(watchers))
    /\ UNCHANGED <<conf, delivered, rv, hrv, gen, policy, watchers, queue, wk,
                   mgen, cb>>

\* the caller calls mux.stream(manage_resource_version, quit_on_timeout): a
\* generator is created, nothing of the body has run
UserMuxStream(manage, quit) ==
    /\ mgen' = NewMGen(manage, quit)
    /\ NoteStream(Mux)
    /\ UNCHANGED <<wvars, mrun, policy, watchers, queue, wk, cb>>

\* lines 511-515: the first next() stores the policy, runs start() and starts
\* a worker for every Watcher of a snapshot of the dict
MGenStart ==
    /\ mgen.pc = "created"
    /\ CanSpawn(dict_values(watchers))
    /\ policy' = [manage |-> Some(mgen.manage), quit |-> Some(mgen.quit)]
    /\ mrun' = TRUE
    /\ wk' = Spawn(dict_values(watchers))
    /\ mgen' = [NoMGen EXCEPT !.pc = "loop"]
    /\ UNCHANGED <<wvars, watchers, queue, cb, stopped>>

\* a consuming loop that takes the newest item of the queue
MGenGetNewest ==
    /\ mgen.pc = "loop"
    /\ IF mrun /\ watchers # {}
       THEN /\ queue # <<>>
            /\ mgen' = [mgen EXCEPT !.pc = "yielded",
                                    !.ev = Some(queue[Len(queue)])]
            /\ queue' = SubSeq(queue, 1, Len(queue) - 1)
       ELSE /\ mgen' = [NoMGen EXCEPT !.pc = "done"]
            /\ queue' = queue
    /\ UNCHANGED <<wvars, mrun, policy, watchers, wk, cb, stopped>>

\* lines 518-523: the loop test and the bounded wait on the queue; on
\* queue.Empty the loop comes back here with nothing changed
MGenGet ==
    /\ mgen.pc = "loop"
    /\ IF mrun /\ watchers # {}
       THEN /\ queue # <<>>
            /\ mgen' = [mgen EXCEPT !.pc = "yielded", !.ev = Some(Head(queue))]
            /\ queue' = Tail(queue)
       ELSE /\ mgen' = [NoMGen EXCEPT !.pc = "done"]
            /\ queue' = queue
    /\ UNCHANGED <<wvars, mrun, policy, watchers, wk, cb, stopped>>

\* the consumer asks for the next event of the merged sequence
MuxNext ==
    /\ mgen.pc = "yielded"
    /\ mgen' = [mgen EXCEPT !.pc = "loop", !.ev = None]
    /\ UNCHANGED <<wvars, mrun, policy, watchers, queue, wk, cb, stopped>>

\* _run_watcher, line 417 (watcher_running is True here) and lines 419-420:
\* the loop test, then the call of watcher.stream with the stored policy
W_while(t) ==
    LET w == wk[t].w IN
    /\ wk[t].pc = "while"
    /\ IF mrun
       THEN /\ wk' = [wk EXCEPT ![t].pc = "iter"]
            /\ SetGen(t, NewGen(w, Truthy(policy.manage), Truthy(policy.quit)))
            /\ NoteStream(w)
       ELSE /\ wk' = [wk EXCEPT ![t].pc = "del"]
            /\ UNCHANGED <<gen, stopped>>
    /\ UNCHANGED <<conf, delivered, run, rv, hrv, mrun, policy, watchers,
                   queue, mgen, cb>>

\* line 421: the Watcher yielded an event
W_got(t) ==
    LET w == wk[t].w IN
    /\ wk[t].pc = "iter"
    /\ gen[t].pc = "yielded"
    /\ IF isrunning(w) /\ mrun
       THEN /\ wk' = [wk EXCEPT ![t].pc = "put"]
            /\ gen' = gen
       ELSE /\ wk' = wk
            /\ SetGen(t, [gen[t] EXCEPT !.pc = "resume"])
    /\ UNCHANGED <<conf, delivered, run, rv, hrv, mrun, policy, watchers,
                   queue, mgen, cb, stopped>>

\* line 422, then the next() of the for loop
W_put(t) ==
    /\ wk[t].pc = "put"
    /\ Len(queue) < MaxQueue
    /\ queue' = Append(queue, QEvent(wk[t].w, Val(gen[t].ev)))
    /\ wk' = [wk EXCEPT ![t].pc = "iter"]
    /\ SetGen(t, [gen[t] EXCEPT !.pc = "resume"])
    /\ UNCHANGED <<conf, delivered, run, rv, hrv, mrun, policy, watchers, mgen,
                   cb, stopped>>

\* a worker that takes no notice of quit_on_timeout when the sequence ended
W_ended_ignores_quit(t) ==
    LET w == wk[t].w IN
    /\ wk[t].pc = "iter"
    /\ gen[t].pc = "done"
    /\ SetGen(t, NoGen)
    /\ wk' = [wk EXCEPT ![t].pc = IF isrunning(w) THEN "while" ELSE "del"]
    /\ UNCHANGED <<conf, delivered, run, rv, hrv, mrun, policy, watchers,
                   queue, mgen, cb, stopped>>

\* lines 423-424 and 436: the Watcher's sequence ended without an exception
W_ended(t) ==
    LET w == wk[t].w IN
    /\ wk[t].pc = "iter"
    /\ gen[t].pc = "done"
    /\ SetGen(t, NoGen)
    /\ IF Truthy(policy.quit)
       THEN /\ stop({w})
            /\ NoteStop({w})
            /\ wk' = [wk EXCEPT ![t].pc = "del"]
       ELSE /\ UNCHANGED <<run, stopped>>
            /\ wk' = [wk EXCEPT ![t].pc = IF isrunning(w) THEN "while" ELSE "del"]
    /\ UNCHANGED <<conf, delivered, rv, hrv, mrun, policy, watchers, queue,
                   mgen, cb>>

\* a handler of the exception that leaves the Watcher running
W_except_no_stop(t) ==
    /\ wk[t].pc = "iter"
    /\ gen[t].pc = "raised"
    /\ SetGen(t, NoGen)
    /\ wk' = [wk EXCEPT ![t].pc = "del", ![t].flag = "None"]
    /\ UNCHANGED <<conf, delivered, run, rv, hrv, mrun, policy, watchers,
                   queue, mgen, cb, stopped>>

\* lines 425-436: the Watcher's sequence raised; flag is what the
\* exception_callback decided
\* a test of the truth of flag ("if not flag") in place of "flag is not True"
CallbackFlagTruthy(c) == c \in {"returns_true", "returns_other"}
\* a handler that takes no notice of the answer of the callback
CallbackFlagIgnored(c) == FALSE
CallbackFlag(c) == c = "returns_true"

\* lines 426-433: the arguments of meth(self, watcher, e) when there is a
\* callback, and the value flag gets: what the callback returned, or None
\* when there is no callback or the callback raised (line 430)
exception_callback(c, m, w, e) ==
    IF c = "none" THEN None
    ELSE Some([mux |-> m, watcher |-> w, exception |-> e])
flag_of(c) == IF c = "returns_true" THEN "True"
              ELSE IF c = "returns_other" THEN "other"
              ELSE "None"

W_except(t) ==
    LET w == wk[t].w IN
    /\ wk[t].pc = "iter"
    /\ gen[t].pc = "raised"
    /\ SetGen(t, NoGen)
    /\ IF CallbackFlag(cb)
       THEN /\ UNCHANGED <<run, stopped>>
            /\ wk' = [wk EXCEPT
                        ![t].pc = IF isrunning(w) THEN "while" ELSE "del",
                        ![t].flag = flag_of(cb),
                        ![t].called = exception_callback(cb, Mux, w, gen[t].exc)]
       ELSE /\ stop({w})
            /\ NoteStop({w})
            /\ wk' = [wk EXCEPT
                        ![t].pc = "del",
                        ![t].flag = flag_of(cb),
                        ![t].called = exception_callback(cb, Mux, w, gen[t].exc)]
    /\ UNCHANGED <<conf, delivered, rv, hrv, mrun, policy, watchers, queue,
                   mgen, cb>>

\* line 437: the worker deletes its Watcher and the thread ends
W_del(t) ==
    /\ wk[t].pc = "del"
    /\ del_watcher(wk[t].w)
    /\ wk' = [wk EXCEPT ![t] = NoWorker]
    /\ UNCHANGED <<conf, delivered, rv, hrv, gen, mrun, policy, queue, mgen,
                   cb>>

\* the steps of a worker whose Watcher yields no event
WorkerIdleStep(t) ==
    \/ W_while(t)
    \/ W_ended(t)
    \/ W_except(t)
    \/ W_del(t)

\* the steps of a worker on an event of its Watcher
WorkerEventStep(t) ==
    \/ W_got(t)
    \/ W_put(t)

----------------------------------------------------------------------------
(* Specification of a Watcher consumed directly by its caller *)

\* the Watcher the caller uses
Direct == "w1"

InitWatcher ==
    /\ cls = [w \in W |-> "Pod"]
    /\ Built
    /\ run = [w \in W |-> FALSE]
    /\ \E x \in RVInputs :
         rv = [w \in W |-> IF w = Direct THEN init_resource_version(x)
                           ELSE None]
    /\ hrv = [w \in W |-> starting_resource_version]
    /\ gen = [d \in Drivers |-> NoGen]
    /\ InitMux
    /\ cb = "none"
    /\ stopped = [o \in Objects |-> FALSE]
    /\ delivered = [w \in W |-> starting_resource_version]

NextWatcher ==
    \/ \E manage \in BOOLEAN, quit \in BOOLEAN : UserStream(Direct, manage, quit)
    \/ UserNext
    \/ UserStop(Direct)
    \/ \E x \in RVInputs : UserUpdate(Direct, x)
    \/ GenPrimeStep(0, Statuses \X Reasons)
    \/ GenIdleStep(0, Statuses \X Reasons)
    \/ GenEventStep(0, EventRVs)

SpecWatcher == InitWatcher /\ [][NextWatcher]_vars

----------------------------------------------------------------------------
(* Properties of a Watcher consumed directly (SpecWatcher) *)

\* the numbers a reason string holds in parentheses
ParenNumbers(s) ==
    {SubSeq(s, p[1] + 1, p[2] - 1) :
        p \in {q \in (1..Len(s)) \X (1..Len(s)) :
                 /\ s[q[1]] = "("
                 /\ s[q[2]] = ")"
                 /\ q[2] > q[1] + 1
                 /\ \A k \in (q[1] + 1)..(q[2] - 1) : IsDigit(s[k])}}

\* the generator of the direct caller receives ApiException(410, ...) in
\* this step, from the request it has open
Gets410 ==
    /\ gen[0].pc \in {"wait", "prime"}
    /\ gen'[0].exc.kind = "ApiException"
    /\ gen'[0].exc.status = 410

\* the generator of the direct caller runs the loop top (GenLoop) in this step
RunsLoopTop ==
    /\ gen[0].pc = "loop"
    /\ gen'[0] # gen[0]
    /\ gen'[0].pc # "created"

\* C3: a cursor-managing Watcher never opens the transport of its main loop
\* with a resource_version that is unset or numerically lower than
\* highest_resource_version
C3_CursorNotBelowHighest ==
    LET g == gen[0] IN
    (g.manage /\ g.req.open /\ ~g.req.prime) =>
        IF g.req.rv = None THEN FALSE
        ELSE /\ IntOk(Val(g.req.rv))
             /\ Int_(Val(g.req.rv)) >= g.req.hi

\* C7: with manage_resource_version, a 410 whose reason holds a number in
\* parentheses sets the cursor to that number as a string, is not raised to
\* the consumer, and the loop then reopens the transport while the Watcher
\* is running
C7_ExpiredResync ==
    [][ /\ (Gets410 /\ gen[0].pc = "wait" /\ gen[0].manage
               /\ ParenNumbers(gen'[0].exc.reason) # {})
           => /\ gen'[0].pc = "loop"
              /\ rv'[gen[0].w] \in {Some(n) : n \in ParenNumbers(gen'[0].exc.reason)}
        /\ (RunsLoopTop /\ gen[0].why = "resync" /\ isrunning(gen[0].w)
               /\ rv[gen[0].w] \in {Some(n) : n \in ParenNumbers(gen[0].exc.reason)})
           => /\ gen'[0].pc = "wait"
              /\ gen'[0].req.open
      ]_vars

C7_Witness ==
    /\ gen[0].pc = "wait"
    /\ gen[0].why = "resynced"
    /\ gen[0].req.rv = Some(<<"2">>)
    /\ isrunning(gen[0].w)

\* C8: a 410 whose reason holds no number in parentheses is raised to the
\* consumer, from the priming request and from the main loop, and leaves the
\* cursor unchanged
C8_UnparsableExpiredFatal ==
    [][ (Gets410 /\ ParenNumbers(gen'[0].exc.reason) = {})
        => /\ gen'[0].pc = "raised"
           /\ rv' = rv
      ]_vars

C8_Witness ==
    /\ gen[0].pc = "raised"
    /\ gen[0].why = "error"
    /\ gen[0].manage
    /\ gen[0].exc.status = 410
    /\ ParenNumbers(gen[0].exc.reason) = {}

\* C9: a transport error with a status other than 410, or a 410 when
\* manage_resource_version is False, is raised to the consumer, ends the
\* sequence and changes neither the cursor nor highest_resource_version
C9_OtherErrorsFatal ==
    [][ (/\ gen[0].pc \in {"wait", "prime"}
         /\ gen'[0].exc.kind = "ApiException"
         /\ (gen'[0].exc.status # 410 \/ ~gen[0].manage))
        => /\ gen'[0].pc = "raised"
           /\ rv' = rv
           /\ hrv' = hrv
      ]_vars

C9_Witness ==
    /\ gen[0].pc = "raised"
    /\ ~gen[0].manage
    /\ gen[0].exc.status = 410
    /\ ParenNumbers(gen[0].exc.reason) # {}

\* C10: when the transport of a running Watcher ends without an error, the
\* sequence ends without raising if quit_on_timeout, and otherwise the
\* Watcher reopens the transport with its current resource_version, timeout
\* after timeout, unless it was stopped or the cursor is no number
TimesOut ==
    /\ gen[0].pc = "wait"
    /\ gen'[0].why \in {"quit", "timeout"}
    /\ isrunning(gen[0].w)

CursorIsNumber(w) == rv[w] # None => IntOk(Val(rv[w]))

C10_IdleTimeout ==
    [][ /\ (TimesOut /\ gen[0].quit)
           => (gen'[0].pc = "done" /\ gen'[0].exc = NoExc)
        /\ (TimesOut /\ ~gen[0].quit)
           => gen'[0].pc = "loop"
        /\ (RunsLoopTop /\ gen[0].why = "timeout" /\ isrunning(gen[0].w)
               /\ (gen[0].manage => CursorIsNumber(gen[0].w)))
           => /\ gen'[0].pc = "wait"
              /\ gen'[0].req.open
              /\ gen'[0].req.rv = rv'[gen[0].w]
      ]_vars

C10_Witness ==
    /\ gen[0].pc = "wait"
    /\ gen[0].why = "reopen"
    /\ ~gen[0].quit
    /\ isrunning(gen[0].w)

----------------------------------------------------------------------------
(* Specification of a MultiplexingWatcher with its Watchers and workers *)

\* the scenario: the coordinator has no exception_callback and streams with
\* both flags False; the transport delivers events of version 1, idle
\* timeouts and a fatal error
MuxFlags == {<<FALSE, FALSE>>}
MuxEvents == {Str(1)}
MuxErrors == { <<500, <<"E", "r", "r">> >> }

Init ==
    /\ cls \in {c \in [W -> Kinds] : c["w1"] = "Pod"}
    /\ Built
    /\ run = [w \in W |-> FALSE]
    /\ rv = [w \in W |-> None]
    /\ hrv = [w \in W |-> starting_resource_version]
    /\ gen = [d \in Drivers |-> NoGen]
    /\ InitMux
    /\ cb = "none"
    /\ stopped = [o \in Objects |-> FALSE]
    /\ delivered = [w \in W |-> starting_resource_version]

Next ==
    \/ \E w \in W : add_watcher(w)
    \/ \E w \in W : UserDel(w)
    \/ MuxStop
    \/ \E f \in MuxFlags : UserMuxStream(f[1], f[2])
    \/ MGenStart
    \/ MGenGet
    \/ MuxNext
    \/ \E t \in Threads : WorkerIdleStep(t)
    \/ \E t \in Threads : WorkerEventStep(t)
    \/ \E t \in Threads : GenIdleStep(t, MuxErrors)
    \/ \E t \in Threads : GenEventStep(t, MuxEvents)

Spec == Init /\ [][Next]_vars

\* the same coordinator on an idle cluster: the transport delivers idle
\* timeouts and the fatal error, no event
NextMembers ==
    \/ \E w \in W : add_watcher(w)
    \/ \E w \in W : UserDel(w)
    \/ MuxStop
    \/ \E f \in MuxFlags : UserMuxStream(f[1], f[2])
    \/ MGenStart
    \/ MGenGet
    \/ \E t \in Threads : WorkerIdleStep(t)
    \/ \E t \in Threads : GenIdleStep(t, MuxErrors)

SpecMembers == Init /\ [][NextMembers]_vars

----------------------------------------------------------------------------
(* Properties of a MultiplexingWatcher (Spec, SpecMembers) *)

running(o) == IF o = Mux THEN mrun ELSE run[o]

\* C1: after stop() on a Watcher or on the coordinator, with no later call
\* of stream() on that object, isrunning() is false
C1_StoppedNotRunning == \A o \in Objects : stopped[o] => ~running(o)

\* C4: add_watcher(w2), called while another Watcher w1 of the same kind is
\* registered, stops w1 and maps the kind to w2; the membership never holds
\* two Watchers of one kind
AtMostOnePerKind ==
    \A e1 \in watchers, e2 \in watchers : e1[1] = e2[1] => e1 = e2

C4_AddReplaces ==
    /\ []AtMostOnePerKind
    /\ [][ \A w2 \in W :
             add_watcher(w2)
             => /\ \A w1 \in dict_get(watchers, cls[w2]) \ {w2} : ~run'[w1]
                /\ dict_get(watchers', cls[w2]) = {w2}
         ]_vars

\* a running coordinator was streaming w1 when w2 of the same kind replaced it
C4_Witness ==
    \E t \in Threads :
        /\ wk[t].pc = "iter"
        /\ wk[t].w = "w1"
        /\ cls["w1"] = cls["w2"]
        /\ watchers = {<<cls["w2"], "w2">>}
        /\ stopped["w1"]
        /\ ~run["w1"]
        /\ mrun

\* C5: no two Watchers of the same kind are running under workers of the
\* running coordinator at the same time, each with its transport open
Streaming(t) ==
    /\ wk[t].pc \in {"iter", "put"}
    /\ gen[t].pc \in {"wait", "evt", "yielded", "resume"}
    /\ run[wk[t].w]

C5_OneStreamPerKind ==
    \A t1 \in Threads, t2 \in Threads :
        (/\ mrun
         /\ wk[t1].w # wk[t2].w
         /\ cls[wk[t1].w] = cls[wk[t2].w])
        => ~(Streaming(t1) /\ Streaming(t2))

\* C6: the membership entry of a Watcher w goes away only by del_watcher(w)
\* of the caller, by the cleanup of a worker of w, or by add_watcher of the
\* Watcher that replaces it; never by the worker of another Watcher
C6_EntryRemovedByOwner ==
    [][ \A w \in W :
          (<<cls[w], w>> \in watchers /\ <<cls[w], w>> \notin watchers')
          => \/ UserDel(w)
             \/ \E t \in Threads : wk[t].w = w /\ W_del(t)
             \/ \E w2 \in W \ {w} : add_watcher(w2)
      ]_vars

----------------------------------------------------------------------------
(* Specification of a coordinator on an idle cluster, with fair threads:    *)
(* every transport call wakes (here by an idle timeout or an error), every  *)
(* worker thread that can take a step takes it.  No add_watcher() follows   *)
(* a stop().                                                                *)

AddBeforeStop(w) == ~stopped[Mux] /\ add_watcher(w)

NextIdle ==
    \/ \E w \in W : AddBeforeStop(w)
    \/ MuxStop
    \/ \E f \in MuxFlags : UserMuxStream(f[1], f[2])
    \/ MGenStart
    \/ MGenGet
    \/ \E t \in Threads : WorkerIdleStep(t)
    \/ \E t \in Threads : GenIdleStep(t, MuxErrors)

SpecFair ==
    /\ Init
    /\ [][NextIdle]_vars
    /\ \A t \in Threads :
         WF_vars(WorkerIdleStep(t) \/ GenIdleStep(t, MuxErrors))

\* every worker thread has ended and no registered Watcher is running
Settled ==
    /\ \A t \in Threads : wk[t].pc = "idle"
    /\ \A w \in dict_values(watchers) : ~run[w]

\* C2: after stop() of the coordinator, with no later stream() or
\* add_watcher(), every worker eventually ends and every member is
\* eventually not running.  The case of a merged sequence that was obtained
\* before the stop() and is first advanced after it (see C1) is left out.
C2_StopObserved ==
    (stopped[Mux] /\ mgen.pc # "created") ~> (Settled \/ ~stopped[Mux])

----------------------------------------------------------------------------
(* Failures of a member under the coordinator (SpecCallback) *)

\* the worker t handles an exception of its Watcher's sequence in this step
Fails(t) == wk[t].pc = "iter" /\ gen[t].pc = "raised" /\ wk'[t] # wk[t]

\* the worker t runs line 437 in this step and ends
Cleans(t) == wk[t].pc = "del" /\ wk'[t] # wk[t]

\* the step of worker t leaves the other Watchers, the other workers with
\* their generators, the queue and the coordinator's flag as they are
Undisturbed(t) ==
    /\ \A o \in W \ {wk[t].w} : run'[o] = run[o]
    /\ \A u \in Threads \ {t} : wk'[u] = wk[u] /\ gen'[u] = gen[u]
    /\ queue' = queue
    /\ mrun' = mrun
    /\ mgen' = mgen

\* C11: with no exception_callback, when the sequence of a member raises
\* under the running coordinator, its worker stops the member, goes to line
\* 437 without pushing another event, removes the entry of the member and
\* ends; every other entry of the membership, every other Watcher, every
\* other worker and the coordinator's running flag are left as they are
C11_FailureRemovesMemberOnly ==
    [][ \A t \in Threads :
          LET w == wk[t].w
              e == <<cls[w], w>>
          IN
          /\ (Fails(t) /\ cb = "none" /\ mrun)
             => /\ ~run'[w]
                /\ wk'[t].pc = "del"
                /\ watchers' = watchers
                /\ Undisturbed(t)
          /\ (Cleans(t) /\ wk[t].flag = "None")
             => /\ wk'[t].pc = "idle"
                /\ ~run'[w]
                /\ e \notin watchers'
                /\ (e \in watchers => watchers' = watchers \ {e})
                /\ Undisturbed(t)
      ]_vars

\* the worker of the member w1 handled a failure and is at line 437, while
\* the worker of the member w2 of another kind is streaming
C11_Witness ==
    \E t1 \in Threads, t2 \in Threads :
        /\ mrun
        /\ cb = "none"
        /\ wk[t1] = [pc |-> "del", w |-> "w1", flag |-> "None", called |-> None]
        /\ ~run["w1"]
        /\ wk[t2].w = "w2" /\ wk[t2].pc = "iter" /\ gen[t2].pc = "wait"
        /\ run["w2"]
        /\ watchers = {<<"Pod", "w1">>, <<"Namespace", "w2">>}

----------------------------------------------------------------------------
(* Specification of a coordinator with or without an exception_callback,   *)
(* with Watchers of two kinds that the caller adds before its one call of  *)
(* stream()                                                                *)

\* the caller adds w before it has called stream()
AddFirst(w) == mgen.pc = "none" /\ add_watcher(w)

\* the caller calls stream(), which it has not called before
StreamOnce(manage, quit) == mgen.pc = "none" /\ UserMuxStream(manage, quit)

InitCallback ==
    /\ cls = [w \in W |-> IF w = "w1" THEN "Pod" ELSE "Namespace"]
    /\ Built
    /\ run = [w \in W |-> FALSE]
    /\ rv = [w \in W |-> None]
    /\ hrv = [w \in W |-> starting_resource_version]
    /\ gen = [d \in Drivers |-> NoGen]
    /\ InitMux
    /\ cb \in Callbacks
    /\ stopped = [o \in Objects |-> FALSE]
    /\ delivered = [w \in W |-> starting_resource_version]

NextCallback ==
    \/ \E w \in W : AddFirst(w)
    \/ MuxStop
    \/ \E f \in MuxFlags : StreamOnce(f[1], f[2])
    \/ MGenStart
    \/ MGenGet
    \/ MuxNext
    \/ \E t \in Threads : WorkerIdleStep(t)
    \/ \E t \in Threads : WorkerEventStep(t)
    \/ \E t \in Threads : GenIdleStep(t, MuxErrors)
    \/ \E t \in Threads : GenEventStep(t, MuxEvents)

SpecCallback == InitCallback /\ [][NextCallback]_vars

----------------------------------------------------------------------------
(* Properties of the exception_callback (SpecCallback) *)

\* the arguments the callback must have received from worker t
CallOf(t) ==
    Some([mux |-> Mux, watcher |-> wk[t].w, exception |-> gen[t].exc])

\* the worker t leaves line 417 in this step
Loops(t) == wk[t].pc = "while" /\ wk'[t] # wk[t]

\* C12: when the exception_callback returns True, a failure of a member's
\* sequence neither stops the member nor removes its entry: the worker goes
\* back to line 417 and, the coordinator running, calls stream() of the
\* member again; the events the member then yields are pushed to
\* results_queue.  The worker reaches line 437 only when the member was
\* stopped, the coordinator is not running or a timeout ended the sequence
\* under quit_on_timeout
C12_ContinueKeepsMember ==
    [][ \A t \in Threads :
          LET w == wk[t].w IN
          /\ (Fails(t) /\ cb = "returns_true")
             => /\ wk'[t].called = CallOf(t)
                /\ run' = run
                /\ watchers' = watchers
                /\ (run[w] => wk'[t].pc = "while")
          /\ (Loops(t) /\ mrun)
             => /\ wk'[t].pc = "iter"
                /\ gen'[t].pc = "created"
                /\ gen'[t].w = w
          /\ (/\ wk[t].flag = "True"
              /\ wk[t].pc = "iter" /\ gen[t].pc = "yielded"
              /\ run[w] /\ mrun
              /\ wk'[t] # wk[t])
             => wk'[t].pc = "put"
          /\ (wk[t].pc = "put" /\ wk'[t] # wk[t])
             => queue' = Append(queue, QEvent(w, Val(gen[t].ev)))
          /\ (cb = "returns_true" /\ wk[t].pc # "del" /\ wk'[t].pc = "del")
             => (~run[w] \/ ~mrun \/ Truthy(policy.quit))
      ]_vars

\* after a failure that the callback answered with True, the worker of the
\* member w1 has pushed an event of w1, which is still registered and running
C12_Witness ==
    \E t \in Threads :
        /\ cb = "returns_true"
        /\ wk[t].w = "w1" /\ wk[t].flag = "True" /\ wk[t].called # None
        /\ wk[t].pc = "iter" /\ gen[t].pc = "resume"
        /\ queue # <<>> /\ queue[Len(queue)].w = "w1"
        /\ <<"Pod", "w1">> \in watchers
        /\ run["w1"] /\ mrun

\* C13: on an exception of a member's sequence the exception_callback is
\* called with (coordinator, watcher, exception); when it returns another
\* value than True or raises, the worker stops the member, goes to line 437,
\* removes the member's entry and ends; the other workers, their generators
\* and the merged sequence are left as they are
C13_CallbackOutcome ==
    [][ \A t \in Threads :
          LET w == wk[t].w IN
          /\ (Fails(t) /\ cb # "none")
             => wk'[t].called = CallOf(t)
          /\ (Fails(t) /\ cb \in {"returns_other", "raises"})
             => /\ ~run'[w]
                /\ wk'[t].pc = "del"
                /\ Undisturbed(t)
          /\ (Cleans(t) /\ wk[t].flag \in {"other", "None"})
             => /\ wk'[t].pc = "idle"
                /\ <<cls[w], w>> \notin watchers'
                /\ Undisturbed(t)
      ]_vars

\* the callback raised: the worker of w1 called it, holds flag None and is
\* at line 437 with w1 stopped, while the merged sequence goes on
C13_Witness ==
    \E t \in Threads :
        /\ cb = "raises"
        /\ wk[t].w = "w1" /\ wk[t].pc = "del"
        /\ wk[t].flag = "None" /\ wk[t].called # None
        /\ ~run["w1"]
        /\ mrun /\ mgen.pc \in {"loop", "yielded"}

----------------------------------------------------------------------------
(* Specification of a coordinator with Watchers of two kinds, added before   *)
(* its one call of stream(), whose transports deliver events of every       *)
(* version                                                                  *)

InitFifo ==
    /\ cls = [w \in W |-> IF w = "w1" THEN "Pod" ELSE "Namespace"]
    /\ Built
    /\ run = [w \in W |-> FALSE]
    /\ rv = [w \in W |-> None]
    /\ hrv = [w \in W |-> starting_resource_version]
    /\ gen = [d \in Drivers |-> NoGen]
    /\ InitMux
    /\ cb = "none"
    /\ stopped = [o \in Objects |-> FALSE]
    /\ delivered = [w \in W |-> starting_resource_version]

NextFifo ==
    \/ \E w \in W : AddFirst(w)
    \/ MuxStop
    \/ \E f \in MuxFlags : StreamOnce(f[1], f[2])
    \/ MGenStart
    \/ MGenGet
    \/ MuxNext
    \/ \E t \in Threads : WorkerIdleStep(t)
    \/ \E t \in Threads : WorkerEventStep(t)
    \/ \E t \in Threads : GenIdleStep(t, MuxErrors)
    \/ \E t \in Threads : GenEventStep(t, EventRVs)

SpecFifo == InitFifo /\ [][NextFifo]_vars

----------------------------------------------------------------------------
(* Order of the merged sequence (SpecFifo) *)

\* C14: results_queue changes only by a worker that appends the event its
\* Watcher has just yielded, before it asks the Watcher for the next one, and
\* by the consuming loop that takes the oldest item; what the merged
\* sequence yields is always the oldest item of the queue.  So the merged
\* sequence is the sequence of pushes, and the events of one worker keep the
\* order in which its Watcher yielded them
C14_QueueFifo ==
    [][ /\ (queue' # queue)
           => \/ /\ queue # <<>>
                 /\ queue' = Tail(queue)
                 /\ mgen.pc = "loop"
                 /\ mgen'.pc = "yielded"
                 /\ mgen'.ev = Some(Head(queue))
              \/ \E t \in Threads :
                    /\ wk[t].pc = "put"
                    /\ gen[t].pc = "yielded"
                    /\ queue' = Append(queue, QEvent(wk[t].w, Val(gen[t].ev)))
                    /\ gen'[t].pc = "resume"
        /\ (mgen'.pc = "yielded" /\ mgen.pc # "yielded")
           => /\ queue # <<>>
              /\ mgen'.ev = Some(Head(queue))
              /\ queue' = Tail(queue)
      ]_vars

\* the consumer holds an event of w1 that was pushed before the two events,
\* of w2 and of w1, that are still in the queue in the order of their pushes
C14_Witness ==
    /\ mgen.pc = "yielded"
    /\ mgen.ev = Some(QEvent("w1", Str(1)))
    /\ queue = <<QEvent("w2", Str(1)), QEvent("w1", Str(2))>>

----------------------------------------------------------------------------
(* End of the merged sequence (Spec: quit_on_timeout is False) *)

\* C15: the merged sequence has ended only if the coordinator's running flag
\* is false (stop() was called) or quit_on_timeout is True; while the flag
\* is true and quit_on_timeout is False the consuming loop goes on
C15_EndsOnlyByStop ==
    mgen.pc = "done" => (~mrun \/ Truthy(policy.quit))

----------------------------------------------------------------------------
(* Specification of a coordinator that is never stopped and whose stream()  *)
(* is called once, with both flags False or both True; the caller adds     *)
(* Watchers that are not registered, before and after that call; the       *)
(* transport answers with events, idle timeouts and the expiry of the      *)
(* requested version                                                       *)

\* the caller adds a Watcher that is not registered
AddNew(w) == w \notin dict_values(watchers) /\ add_watcher(w)

PolicyFlags == {<<FALSE, FALSE>>, <<TRUE, TRUE>>}
PolicyErrors == { <<410, <<"Expired:", " ", "(", "2", ")">> >> }

NextPolicy ==
    \/ \E w \in W : AddNew(w)
    \/ \E f \in PolicyFlags : StreamOnce(f[1], f[2])
    \/ MGenStart
    \/ MGenGet
    \/ MuxNext
    \/ \E t \in Threads : WorkerIdleStep(t)
    \/ \E t \in Threads : WorkerEventStep(t)
    \/ \E t \in Threads : GenPrimeStep(t, PolicyErrors)
    \/ \E t \in Threads : GenIdleStep(t, PolicyErrors)
    \/ \E t \in Threads : GenEventStep(t, MuxEvents)

SpecPolicy == InitFifo /\ [][NextPolicy]_vars

----------------------------------------------------------------------------
(* Properties of add_watcher and of the stored policy (SpecPolicy) *)

\* exactly one thread is started in this step, a worker of w, and the
\* other threads are left as they are
StartsWorker(w) ==
    \E t \in Threads :
        /\ wk[t].pc = "idle"
        /\ wk'[t] = Worker(w)
        /\ \A u \in Threads \ {t} : wk'[u] = wk[u]

\* the first next() of the merged sequence runs lines 511-515 in this step
StreamRuns == mgen.pc = "created" /\ mgen'.pc = "loop"

\* C16: add_watcher(w) registers w; under a running coordinator it starts
\* one worker of w in the same call, and otherwise it starts none: the
\* workers of the registered Watchers are started when stream() is run.  A
\* worker calls stream() of its Watcher with the manage_resource_version and
\* quit_on_timeout that the latest run of stream() stored
C16_AddWhileRunning ==
    [][ /\ \A w \in W :
             add_watcher(w)
             => /\ dict_get(watchers', cls[w]) = {w}
                /\ (mrun => StartsWorker(w))
                /\ (~mrun => wk' = wk)
        /\ StreamRuns
           => /\ mrun'
              /\ policy' = [manage |-> Some(mgen.manage), quit |-> Some(mgen.quit)]
              /\ \A w \in dict_values(watchers) :
                    \E t \in Threads : wk[t].pc = "idle" /\ wk'[t] = Worker(w)
        /\ \A t \in Threads :
             (Loops(t) /\ mrun)
             => gen'[t] = NewGen(wk[t].w, policy.manage = Some(TRUE),
                                          policy.quit = Some(TRUE))
      ]_vars

\* under a coordinator that streams with both flags True, the workers of w1
\* and of w2 both stream with these flags, and the merged sequence has
\* yielded an event of w2 while an event of w1 waits in the queue
C16_Witness ==
    \E t1 \in Threads, t2 \in Threads :
        /\ mrun
        /\ policy = [manage |-> Some(TRUE), quit |-> Some(TRUE)]
        /\ wk[t1].w = "w1" /\ wk[t1].pc = "iter"
        /\ wk[t2].w = "w2" /\ wk[t2].pc = "iter"
        /\ gen[t1].manage /\ gen[t1].quit
        /\ gen[t2].manage /\ gen[t2].quit
        /\ mgen.pc = "yielded"
        /\ mgen.ev = Some(QEvent("w2", Str(1)))
        /\ queue = <<QEvent("w1", Str(1))>>

----------------------------------------------------------------------------
(* Specification of a coordinator on an idle cluster whose caller also      *)
(* stops single Watchers                                                    *)

NextStops ==
    \/ \E w \in W : add_watcher(w)
    \/ \E w \in W : UserStop(w)
    \/ MuxStop
    \/ \E f \in MuxFlags : UserMuxStream(f[1], f[2])
    \/ MGenStart
    \/ MGenGet
    \/ \E t \in Threads : WorkerIdleStep(t)
    \/ \E t \in Threads : GenIdleStep(t, MuxErrors)

SpecStops == Init /\ [][NextStops]_vars

\* the Watchers and the coordinator have these flags cleared
AllStopped(S) == \A o \in S : ~running(o)

\* C17: stop() of a Watcher clears its running flag and changes neither a
\* cursor, highest_resource_version, the membership, the queue nor the flag
\* of another object; stop() of the coordinator clears its flag and the flags
\* of the registered Watchers and changes nothing else of these.  A stop()
\* in a state in which these flags are already cleared, as after a first
\* stop() or before any start, changes none of them
C17_StopIdempotent ==
    [][ /\ \A w \in W :
             UserStop(w)
             => /\ ~run'[w]
                /\ \A o \in W \ {w} : run'[o] = run[o]
                /\ UNCHANGED <<rv, hrv, watchers, queue, mrun>>
                /\ (AllStopped({w}) => run' = run)
        /\ MuxStop
           => /\ ~mrun'
              /\ \A w \in dict_values(watchers) : ~run'[w]
              /\ \A o \in W \ dict_values(watchers) : run'[o] = run[o]
              /\ UNCHANGED <<rv, hrv, watchers, queue>>
              /\ (AllStopped({Mux} \cup dict_values(watchers))
                    => UNCHANGED <<run, mrun>>)
      ]_vars

\* stop() of the coordinator reached the registered Watcher w1 while its
\* worker was blocked in the transport call
C17_Witness ==
    \E t \in Threads :
        /\ wk[t].w = "w1" /\ wk[t].pc = "iter" /\ gen[t].pc = "wait"
        /\ <<"Pod", "w1">> \in watchers
        /\ stopped[Mux] /\ ~mrun
        /\ stopped["w1"] /\ ~run["w1"]

----------------------------------------------------------------------------
(* Properties of del_watcher (SpecMembers) *)

\* C18: del_watcher(w) of the caller stops w and leaves the membership
\* without w; when w was registered only its entry goes, and when the kind
\* of w has no entry, as after a first del_watcher(w), the call goes through
\* and the membership stays as it is
C18_DelIdempotent ==
    [][ \A w \in W :
          UserDel(w)
          => /\ ~run'[w]
             /\ dict_get(watchers', cls[w]) = {}
             /\ (<<cls[w], w>> \in watchers
                   => watchers' = watchers \ {<<cls[w], w>>})
             /\ (dict_get(watchers, cls[w]) = {} => watchers' = watchers)
      ]_vars

\* before any stream(), del_watcher(w1) left the membership with the
\* Watcher w2 of another kind only, and w1 stopped
C18_Witness ==
    /\ mgen.pc = "none"
    /\ cls["w1"] # cls["w2"]
    /\ watchers = {<<cls["w2"], "w2">>}
    /\ stopped["w1"] /\ ~run["w1"]

----------------------------------------------------------------------------
(* Restart of a Watcher consumed directly (SpecWatcher) *)

\* the first next() of the sequence runs lines 313-318 in this step
Starts == gen[0].pc = "created" /\ gen'[0].pc \in {"prime", "loop"}

\* a request of the main loop of a managing generator, made with a cursor
ManagedRequest ==
    /\ gen[0].manage
    /\ gen[0].req.open
    /\ ~gen[0].req.prime
    /\ gen[0].req.rv # None

\* C19: a Watcher can be streamed again after stop(): the new sequence marks
\* it running when it starts; stop(), stream() and the start of the sequence
\* leave the cursor and highest_resource_version as they are, and
\* highest_resource_version never goes down; with
\* manage_resource_version, every request made with a cursor, the first one
\* of the new sequence included, carries a number that is not below
\* highest_resource_version as it is when the request is made
C19_RestartKeepsCursor ==
    /\ [](ManagedRequest
            => /\ IntOk(Val(gen[0].req.rv))
               /\ Int_(Val(gen[0].req.rv)) >= gen[0].req.hi)
    /\ [][ /\ Starts => (run'[gen[0].w] /\ hrv' = hrv /\ rv' = rv)
           /\ ((gen' # gen /\ gen'[0].pc = "created") \/ stopped' # stopped)
              => (hrv' = hrv /\ rv' = rv)
           /\ \A w \in W : hrv'[w] >= hrv[w]
         ]_vars

\* the first request of a new managing sequence of a Watcher that observed
\* the version MaxRV in an earlier sequence asks for MaxRV
C19_Witness ==
    /\ gen[0].pc = "wait"
    /\ gen[0].why = "open"
    /\ gen[0].manage
    /\ gen[0].req.hi = MaxRV
    /\ gen[0].req.rv = Some(Str(MaxRV))
    /\ run[gen[0].w]

----------------------------------------------------------------------------
(* Specification of a coordinator that is stopped and streamed again: the   *)
(* caller added the Watchers of Added, removes none, and the transport      *)
(* delivers events and idle timeouts, no error                              *)

Added == {"w1"}

\* the state after mux = MultiplexingWatcher() and mux.add_watcher(w) for
\* the Watchers of Added
InitRestart ==
    /\ cls = [w \in W |-> IF w = "w1" THEN "Pod" ELSE "Namespace"]
    /\ Built
    /\ run = [w \in W |-> FALSE]
    /\ rv = [w \in W |-> None]
    /\ hrv = [w \in W |-> starting_resource_version]
    /\ gen = [d \in Drivers |-> NoGen]
    /\ mrun = FALSE
    /\ policy = [manage |-> None, quit |-> None]
    /\ watchers = {<<cls[w], w>> : w \in Added}
    /\ queue = <<>>
    /\ wk = [t \in Threads |-> NoWorker]
    /\ mgen = NoMGen
    /\ cb = "none"
    /\ stopped = [o \in Objects |-> FALSE]
    /\ delivered = [w \in W |-> starting_resource_version]

NextRestart ==
    \/ MuxStop
    \/ \E f \in MuxFlags : UserMuxStream(f[1], f[2])
    \/ MGenStart
    \/ MGenGet
    \/ MuxNext
    \/ \E t \in Threads : W_while(t)
    \/ \E t \in Threads : W_ended(t)
    \/ \E t \in Threads : W_del(t)
    \/ \E t \in Threads : WorkerEventStep(t)
    \/ \E t \in Threads : GenStart(t)
    \/ \E t \in Threads : GenLoop(t)
    \/ \E t \in Threads : GenTimeout(t)
    \/ \E t \in Threads : GenEventStep(t, MuxEvents)

SpecRestart == InitRestart /\ [][NextRestart]_vars

\* C20: while the merged sequence of a stream() call that was made after
\* the last stop() is being consumed, the coordinator running, every Watcher
\* that was added and never deleted by the caller is registered and has a
\* worker
C20_RestartStreamsMembers ==
    (mrun /\ ~stopped[Mux] /\ mgen.pc \in {"loop", "yielded"})
    => \A w \in Added :
         /\ <<cls[w], w>> \in watchers
         /\ \E t \in Threads : wk[t].pc # "idle" /\ wk[t].w = w

----------------------------------------------------------------------------
(* update_resource_version of a Watcher consumed directly (SpecWatcher) *)

\* an argument that is unset (None) or empty ('')
EmptyOrUnset(x) == x.t = "none" \/ (x.t = "str" /\ x.s = <<>>)

\* a cursor that holds a concrete value: set, and not the empty string
Concrete(c) == c # None /\ Val(c) # <<>>

\* C21: update_resource_version(v) with v unset or empty fails and leaves
\* the cursor as it is; with another v it sets the cursor to str(v); a cursor
\* that holds a concrete value is never unset or empty afterwards
C21_UpdateRejectsEmpty ==
    [][ /\ \A x \in RVInputs :
             UserUpdate(Direct, x)
             => IF EmptyOrUnset(x) THEN rv' = rv
                ELSE rv'[Direct] = Some(str(x))
        /\ Concrete(rv[Direct]) => Concrete(rv'[Direct])
      ]_vars

----------------------------------------------------------------------------
(* Watcher.__init__ (lines 206-239): the caller binds the name w to         *)
(* Watcher(k, namespace=n, resource_version=x), k a HikaruDocumentBase      *)
(* subclass.  A TypeError leaves the name and every object as they were.    *)

\* line 214, "if namespace:": the truth of the namespace argument
NamespaceTruthy(n) == n # None /\ Val(n) # ""

\* lines 214-221: the descriptor the constructor takes, None when it raises
descriptor(k, n) ==
    IF NamespaceTruthy(n) THEN namespaced_watcher(k) ELSE watcher_of(k)

Watcher(w, k, n, x) ==
    /\ IF descriptor(k, n) = None
       THEN /\ made' = [made EXCEPT ![w] = "TypeError"]
            /\ UNCHANGED <<cls, wd, ns, run, rv, hrv, stopped, delivered>>
       ELSE /\ made' = [made EXCEPT ![w] = "ok"]
            /\ cls' = [cls EXCEPT ![w] = k]
            /\ wd' = [wd EXCEPT ![w] = descriptor(k, n)]
            /\ ns' = [ns EXCEPT ![w] = n]
            /\ run' = [run EXCEPT ![w] = FALSE]
            /\ rv' = [rv EXCEPT ![w] = init_resource_version(x)]
            /\ hrv' = [hrv EXCEPT ![w] = starting_resource_version]
            /\ stopped' = [stopped EXCEPT ![w] = FALSE]
            /\ delivered' = [delivered EXCEPT ![w] = starting_resource_version]
    /\ UNCHANGED <<gen, mvars>>

\* before any Watcher was constructed
InitConstruct ==
    /\ cls = [w \in W |-> "Pod"]
    /\ wd = [w \in W |-> None]
    /\ ns = [w \in W |-> None]
    /\ made = [w \in W |-> "none"]
    /\ run = [w \in W |-> FALSE]
    /\ rv = [w \in W |-> None]
    /\ hrv = [w \in W |-> starting_resource_version]
    /\ gen = [d \in Drivers |-> NoGen]
    /\ InitMux
    /\ cb = "none"
    /\ stopped = [o \in Objects |-> FALSE]
    /\ delivered = [w \in W |-> starting_resource_version]

NextConstruct ==
    \E w \in W, k \in CtorKinds, n \in Namespaces, x \in RVInputs :
        Watcher(w, k, n, x)

SpecConstruct == InitConstruct /\ [][NextConstruct]_vars

\* C22: Watcher(k, namespace=n, resource_version=x) raises TypeError exactly
\* when k does not support the requested variant: a namespace is given and k
\* has no namespaced descriptor, or none is given and k has no cluster-wide
\* descriptor; otherwise the Watcher has the descriptor of the requested
\* variant, is not running, has highest_resource_version -1 and the cursor
\* str(x), or unset when x is None
C22_ConstructionValidates ==
    [][ \A w \in W, k \in CtorKinds, n \in Namespaces, x \in RVInputs :
          Watcher(w, k, n, x)
          => LET requested == IF n # None THEN namespaced_watcher(k)
                              ELSE watcher_of(k)
             IN  IF requested = None THEN made'[w] = "TypeError"
                 ELSE /\ made'[w] = "ok"
                      /\ wd'[w] = requested
                      /\ ~run'[w]
                      /\ hrv'[w] = starting_resource_version
                      /\ rv'[w] = init_resource_version(x)
      ]_vars

----------------------------------------------------------------------------
(* Lines 347-349 as two steps.  "if new_rv > self.highest_resource_version:  *)
(* self.highest_resource_version = new_rv" reads the attribute, compares    *)
(* and then stores; a thread switch may fall between the read and the       *)
(* store.  GenEvent above is the two steps taken together, which is what    *)
(* happens when one thread at a time streams the Watcher.                   *)

\* lines 341-348: the transport delivers an event of resourceVersion e, the
\* object is deserialized and new_rv compared with highest_resource_version.
\* pc "store": the comparison was true, the assignment of line 349 is next
GenEventCompare(d, e) ==
    LET g == gen[d]
        w == g.w
    IN
    /\ g.pc = "wait"
    /\ IF ~isrunning(w)
       THEN SetGen(d, [g EXCEPT !.pc = "loop", !.req = NoReq,
                                !.why = "stopped"])
       ELSE SetGen(d, [g EXCEPT !.pc = IF Int_(e) > hrv[w] THEN "store"
                                       ELSE "evt",
                                !.ev = Some(e), !.why = "event"])
    /\ UNCHANGED <<conf, delivered, run, rv, hrv>>
    /\ UNCHANGED <<mvars, stopped>>

\* line 349: self.highest_resource_version = new_rv
GenEventStore(d) ==
    LET g == gen[d] IN
    /\ g.pc = "store"
    /\ hrv' = [hrv EXCEPT ![g.w] = Int_(Val(g.ev))]
    /\ SetGen(d, [g EXCEPT !.pc = "evt"])
    /\ UNCHANGED <<conf, delivered, run, rv>>
    /\ UNCHANGED <<mvars, stopped>>

\* the steps around an event of the transport, thread switches included
GenEventThreadStep(d, Evs) ==
    \/ \E e \in Evs : GenEventCompare(d, e)
    \/ GenEventStore(d)
    \/ GenYield(d)
    \/ GenResume(d)

----------------------------------------------------------------------------
(* Specification of a coordinator that is streamed, stopped and streamed    *)
(* again, with the Watchers of SpecRestart, events of every version and     *)
(* the thread switches of lines 347-349                                     *)

\* the caller calls stream() for the first time, or again after stop()
StreamAfterStop(manage, quit) ==
    /\ mgen.pc = "none" \/ stopped[Mux]
    /\ UserMuxStream(manage, quit)

NextShared ==
    \/ MuxStop
    \/ \E f \in MuxFlags : StreamAfterStop(f[1], f[2])
    \/ MGenStart
    \/ MGenGet
    \/ MuxNext
    \/ \E t \in Threads : W_while(t)
    \/ \E t \in Threads : W_ended(t)
    \/ \E t \in Threads : W_del(t)
    \/ \E t \in Threads : WorkerEventStep(t)
    \/ \E t \in Threads : GenStart(t)
    \/ \E t \in Threads : GenLoop(t)
    \/ \E t \in Threads : GenTimeout(t)
    \/ \E t \in Threads : GenEventThreadStep(t, EventRVs)

SpecShared == InitRestart /\ [][NextShared]_vars

\* C23: highest_resource_version of a Watcher never decreases, and once the
\* stream has deserialized an event of version v (the generator is past
\* lines 347-349 with that event) it is at least v
C23_HighestMonotonic ==
    /\ [][\A w \in W : hrv'[w] >= hrv[w]]_vars
    /\ [](\A d \in Drivers :
            (gen[d].pc \in {"evt", "yielded"} /\ gen[d].ev # None)
            => hrv[gen[d].w] >= Int_(Val(gen[d].ev)))

----------------------------------------------------------------------------
(* Delivery of the events of the transport (SpecWatcher) *)

\* the generator of the direct caller goes on from the event it holds
LeavesEvent ==
    /\ gen[0].pc = "evt"
    /\ gen'[0] # gen[0]
    /\ gen'[0].pc # "created"

\* C24: every event the transport delivers to a running Watcher is taken
\* for yielding whatever its version, also when the version is not above
\* highest_resource_version, and is yielded unless the Watcher was stopped
\* in between; the event the consumer gets is the one delivered
C24_DuplicateDelivery ==
    [][ /\ \A e \in EventRVs :
             (GenEvent(0, e) /\ isrunning(gen[0].w))
             => /\ gen'[0].pc = "evt"
                /\ gen'[0].ev = Some(e)
        /\ (LeavesEvent /\ isrunning(gen[0].w))
           => /\ gen'[0].pc = "yielded"
              /\ gen'[0].ev = gen[0].ev
      ]_vars

\* the running Watcher has yielded an event of version 1 after it had
\* observed the version MaxRV
C24_Witness ==
    /\ gen[0].pc = "yielded"
    /\ gen[0].ev = Some(Str(1))
    /\ hrv[gen[0].w] = MaxRV
    /\ isrunning(gen[0].w)

----------------------------------------------------------------------------
(* The priming request of a Watcher consumed directly (SpecWatcher) *)

\* the priming request of the direct caller's generator ends in this step
PrimeEnds ==
    /\ gen[0].pc = "prime"
    /\ gen'[0] # gen[0]
    /\ gen'[0].pc # "created"

\* it ended by a 410 whose reason starts with 'Expired:' and holds a number
\* in parentheses
PrimeExpired ==
    /\ gen'[0].exc.kind = "ApiException"
    /\ gen'[0].exc.status = 410
    /\ startswith_Expired(gen'[0].exc.reason)
    /\ ParenNumbers(gen'[0].exc.reason) # {}

\* C25: a sequence that starts with manage_resource_version and the cursor
\* unset first opens a priming request with resource_version '1' and leaves
\* the stored cursor alone; when that request ends by a 410 'Expired:' with
\* a number in parentheses the cursor is set to the number and the main
\* loop follows, and every other end of the priming request ends the
\* sequence with an error, so that no request of the main loop follows it
C25_PrimingFirst ==
    [][ /\ (Starts /\ gen[0].manage /\ rv[gen[0].w] = None)
           => /\ gen'[0].pc = "prime"
              /\ gen'[0].req = Req(TRUE, Some(<<"1">>), hrv[gen[0].w])
              /\ rv' = rv
        /\ PrimeEnds
           => IF PrimeExpired
              THEN /\ gen'[0].pc = "loop"
                   /\ rv'[gen[0].w] \in
                        {Some(n) : n \in ParenNumbers(gen'[0].exc.reason)}
              ELSE gen'[0].pc = "raised"
      ]_vars

----------------------------------------------------------------------------
(* The test of line 421 and the put of line 422 (SpecFifo) *)

\* the worker t receives an event from its Watcher's sequence in this step
Receives(t) ==
    /\ wk[t].pc = "iter"
    /\ gen[t].pc = "yielded"
    /\ <<wk'[t], gen'[t]>> # <<wk[t], gen[t]>>

\* C26: a worker takes an event for the queue only if its Watcher and the
\* coordinator are running when it receives the event, and otherwise drops
\* it and asks for the next one; an event enters the queue only while both
\* are running, so none enters it after stop() of the coordinator
C26_PushOnlyWhileRunning ==
    [][ /\ \A t \in Threads :
             Receives(t)
             => IF run[wk[t].w] /\ mrun
                THEN wk'[t].pc = "put" /\ queue' = queue
                ELSE /\ wk'[t].pc = "iter"
                     /\ gen'[t].pc = "resume"
                     /\ queue' = queue
        /\ Len(queue') > Len(queue)
           => /\ mrun
              /\ \E t \in Threads : wk[t].pc = "put" /\ run[wk[t].w]
      ]_vars

----------------------------------------------------------------------------
(* stop() of the coordinator and the queue (SpecRestart) *)

\* the consuming loop of the merged sequence takes a step
Consumes ==
    /\ mgen.pc = "loop"
    /\ mgen' # mgen
    /\ mgen'.pc # "created"

\* C27: stop() of the coordinator clears its running flag and the flags of
\* the registered Watchers and leaves the membership and the queue as they
\* are; the events in the queue are not lost: the consuming loop of a
\* stream() call made after the stop(), the coordinator running, yields the
\* oldest event of the queue when it takes its step.  The step is taken
\* with no worker alive, so that every event of the queue was pushed by a
\* worker that the stop() ended
C27_StopKeepsQueue ==
    [][ /\ MuxStop
           => /\ ~mrun'
              /\ \A w \in dict_values(watchers) : ~run'[w]
              /\ watchers' = watchers
              /\ queue' = queue
        /\ (/\ Consumes /\ mrun /\ ~stopped[Mux] /\ queue # <<>>
            /\ \A t \in Threads : wk[t].pc = "idle")
           => /\ mgen'.pc = "yielded"
              /\ mgen'.ev = Some(Head(queue))
      ]_vars

----------------------------------------------------------------------------
(* quit_on_timeout under the coordinator (SpecPolicy) *)

\* the entries and the running flags of the Watchers other than w stay
OthersKept(w) ==
    \A o \in W \ {w} :
        /\ (<<cls[o], o>> \in watchers') = (<<cls[o], o>> \in watchers)
        /\ run'[o] = run[o]

\* the worker t finds the sequence of its Watcher ended without an exception
Ends(t) == wk[t].pc = "iter" /\ gen[t].pc = "done" /\ wk'[t] # wk[t]

\* C28: under a coordinator that streams with quit_on_timeout, when the
\* sequence of a member ends without an exception, as it does on an idle
\* timeout, its worker stops the member and goes to line 437 without calling
\* stream() again, removes the entry of the member and ends; the other
\* Watchers, the other workers and their entries are left as they are; with
\* no member left the consuming loop ends the merged sequence
C28_QuitOnTimeoutRemoves ==
    [][ /\ \A t \in Threads :
             LET w == wk[t].w
                 e == <<cls[w], w>>
             IN
             /\ (Ends(t) /\ Truthy(policy.quit))
                => /\ ~run'[w]
                   /\ wk'[t].pc = "del"
                   /\ watchers' = watchers
                   /\ Undisturbed(t)
             /\ (Cleans(t) /\ Truthy(policy.quit))
                => /\ wk'[t].pc = "idle"
                   /\ ~run'[w]
                   /\ e \notin watchers'
                   /\ OthersKept(w)
                   /\ Undisturbed(t)
        /\ (Consumes /\ watchers = {})
           => mgen'.pc = "done"
      ]_vars

\* quit_on_timeout: the sequence of w1 ended without an exception and its
\* worker, w1 stopped, is at line 437, while the worker of w2 is streaming
C28_Witness ==
    \E t1 \in Threads, t2 \in Threads :
        /\ mrun
        /\ policy.quit = Some(TRUE)
        /\ wk[t1].w = "w1" /\ wk[t1].pc = "del" /\ wk[t1].flag = "unbound"
        /\ ~run["w1"] /\ stopped["w1"]
        /\ wk[t2].w = "w2" /\ wk[t2].pc = "iter" /\ gen[t2].pc = "wait"
        /\ run["w2"]
        /\ watchers = {<<"Pod", "w1">>, <<"Namespace", "w2">>}

----------------------------------------------------------------------------
(* The frame of del_watcher (SpecMembers) *)

\* C29: del_watcher(w), called by the caller or by the worker of w at line
\* 437, changes the membership for w only: the entry of every other
\* Watcher, one of the kind of w included, stays, and no other Watcher is
\* stopped
C29_DelTouchesOnlyItself ==
    [][ /\ \A w \in W : UserDel(w) => OthersKept(w)
        /\ \A t \in Threads : W_del(t) => OthersKept(wk[t].w)
      ]_vars

----------------------------------------------------------------------------
(* Specification of a coordinator that is never stopped, whose consumer     *)
(* keeps iterating the one merged sequence it asked for, with fair worker   *)
(* threads; the transport delivers events, idle timeouts and a fatal error  *)

\* the steps of the consumer on the merged sequence
ConsumerStep ==
    \/ MGenStart
    \/ MGenGet
    \/ MuxNext

\* the steps of the worker thread t and of the generator it drives
ThreadStep(t) ==
    \/ WorkerIdleStep(t)
    \/ WorkerEventStep(t)
    \/ GenIdleStep(t, MuxErrors)
    \/ GenEventStep(t, MuxEvents)

\* stream() is called without or with quit_on_timeout
DeliverFlags == {<<FALSE, FALSE>>, <<FALSE, TRUE>>}

NextDeliver ==
    \/ \E w \in W : AddFirst(w)
    \/ \E f \in DeliverFlags : StreamOnce(f[1], f[2])
    \/ ConsumerStep
    \/ \E t \in Threads : ThreadStep(t)

SpecDeliver ==
    /\ InitFifo
    /\ [][NextDeliver]_vars
    /\ WF_vars(ConsumerStep)
    /\ \A t \in Threads : WF_vars(ThreadStep(t))

\* C30: an event that is in results_queue of the running coordinator is
\* eventually yielded by the merged sequence, the consumer iterating and
\* stop() never called; so are the events a member pushed before it failed
\* or timed out
C30_PushedIsYielded ==
    \A w \in W, e \in MuxEvents :
        (mrun /\ queue # <<>> /\ Head(queue) = QEvent(w, e))
        ~> (mgen.pc = "yielded" /\ mgen.ev = Some(QEvent(w, e)))

----------------------------------------------------------------------------
(* Worker threads per Watcher (Spec) *)

\* the worker thread t is inside watcher.stream() of the Watcher w: in the
\* for loop of lines 419-422, the generator past start() and not ended
Drives(t, w) ==
    /\ wk[t].pc \in {"iter", "put"}
    /\ wk[t].w = w
    /\ gen[t].pc \in {"prime", "loop", "wait", "store", "evt", "yielded",
                      "resume"}

\* C31: at no time are two worker threads of the coordinator inside the
\* stream() of the same Watcher instance, whatever stream(), stop(),
\* add_watcher() and del_watcher() calls were made
C31_OneWorkerPerWatcher ==
    \A w \in W : \A t1 \in Threads, t2 \in Threads :
        (Drives(t1, w) /\ Drives(t2, w)) => t1 = t2

----------------------------------------------------------------------------
(* highest_resource_version and the events delivered (SpecWatcher) *)

\* C32: when the generator of the directly used Watcher discards an event
\* it received, because the Watcher was stopped before the test of line
\* 355, highest_resource_version is not above the largest resourceVersion
\* among the events the Watcher has yielded to its caller
C32_HighestIsDelivered ==
    [][ (GenYield(0) /\ ~isrunning(gen[0].w))
        => hrv'[gen[0].w] <= delivered'[gen[0].w] ]_vars

----------------------------------------------------------------------------
(* The running flag of a Watcher consumed directly (SpecWatcher) *)

\* the sequence of the direct caller has ended by itself: by the idle
\* timeout under quit_on_timeout, or by an exception that propagated
EndedByItself ==
    \/ gen[0].pc = "done" /\ gen[0].why = "quit"
    \/ gen[0].pc = "raised"

\* C33: _run of a Watcher consumed directly becomes true only by the start()
\* of stream() (line 313) and false only by stop(); once the sequence has
\* ended by the idle timeout with quit_on_timeout or by a propagated
\* exception, isrunning() is true unless stop() was called since the
\* stream() call
C33_RunningUntilStop ==
    /\ [][\A w \in W :
            /\ (~run[w] /\ run'[w]) => (GenStart(0) /\ gen[0].w = w)
            /\ (run[w] /\ ~run'[w]) => UserStop(w)]_vars
    /\ []((EndedByItself /\ ~stopped[gen[0].w]) => isrunning(gen[0].w))

\* the sequence ended by the idle timeout, no stop() was called, and the
\* Watcher is still running
C33_Witness ==
    /\ gen[0].pc = "done"
    /\ gen[0].why = "quit"
    /\ gen[0].quit
    /\ ~stopped[gen[0].w]
    /\ isrunning(gen[0].w)

====
